---- MODULE Spec2Model ----
(***************************************************************************)
(* LeaseScan: the lease-processing pipeline of src/main.py.                *)
(*                                                                         *)
(* process_lease is one coroutine per request (a WorkItem) on the single   *)
(* event-loop thread of the server.  Its only suspension point is          *)
(* await request.json(); every later call (requests.get, requests.post,  *)
(* s3_client.upload_file) is a synchronous call made on the loop thread.   *)
(* The model has one action for the arrival of each external reply and one *)
(* action for the handler code that runs between two external calls.       *)
(*                                                                         *)
(* Python values are encoded as records tagged by type.  A str is a tuple  *)
(* of atoms: characters for document text, comma-free fields for the       *)
(* email blob, tokens for a model's reply.  A dict is a function whose     *)
(* DOMAIN is the set of keys present.                                      *)
(***************************************************************************)
EXTENDS Integers, Sequences, FiniteSets, TLC

\* ------------------------------------------------------------------ bounds
\* Concurrent requests the server handles in one run.
NumWorkItems == 2
\* Pages of a downloaded PDF.
MaxPages == 2
\* Risk records in one RiskSet.
MaxRisks == 2
\* Clause records in one ClauseSet.
MaxClauses == 1

WorkItems == 1..NumWorkItems

\* ----------------------------------------------------------- Python values
None == [ty |-> "None"]
Str(s) == [ty |-> "str", s |-> s]
Num(n) == [ty |-> "int", n |-> n]
EmptyStr == Str(<<>>)

\* dict.get(k, default)
Get(d, k, default) == IF k \in DOMAIN d THEN d[k] ELSE default
EmptyDict == [k \in {} |-> None]

\* An exception object: its class and str(e).
Exc(cls, msg) == [cls |-> cls, msg |-> msg]
Ok(v) == [ok |-> TRUE, val |-> v]
Err(e) == [ok |-> FALSE, exc |-> e]

\* The exception classes the pipeline's calls raise, by the except clause
\* that matches them.  requests' JSONDecodeError derives from both
\* RequestException and ValueError.
RequestExceptions == {"HTTPError", "Timeout", "ConnectionError", "RequestsJSONDecodeError"}
ClientErrors == {"ClientError"}
ValueErrors == {"ValueError", "JSONDecodeError", "RequestsJSONDecodeError"}
OtherExceptions == {"KeyError", "AttributeError", "TypeError", "IndexError",
                    "OSError", "S3UploadFailedError", "NoCredentialsError",
                    "PDFPageCountError"}
ExceptionClasses == RequestExceptions \cup ClientErrors \cup ValueErrors \cup OtherExceptions

\* -------------------------------------------------------------- envelopes
NoResult == [kind |-> "none"]
Returned(env) == [kind |-> "return", env |-> env]
Raised(e) == [kind |-> "raise", exc |-> e]

ErrorEnvelope(prefix, detail) == [status |-> "error", message |-> <<prefix, detail>>]
MissingEnvelope == [status |-> "error", message |-> <<"Missing file URL or email.">>]
SuccessEnvelope(url, mail) ==
    [status |-> "success",
     message |-> <<"Lease processing completed successfully">>,
     report_url |-> url,
     email |-> mail]

\* The except clauses of process_lease, in their order; an exception no
\* clause matches leaves the handler.
except_clauses_no_catch_all(e) ==
    IF e.cls \in RequestExceptions
    THEN Returned(ErrorEnvelope("Failed to download or process file: ", e.msg))
    ELSE IF e.cls \in ClientErrors
    THEN Returned(ErrorEnvelope("S3 error: ", e.msg))
    ELSE IF e.cls \in ValueErrors
    THEN Returned(ErrorEnvelope("Invalid data: ", e.msg))
    ELSE Raised(e)

except_clauses(e) ==
    IF e.cls \in RequestExceptions
    THEN Returned(ErrorEnvelope("Failed to download or process file: ", e.msg))
    ELSE IF e.cls \in ClientErrors
    THEN Returned(ErrorEnvelope("S3 error: ", e.msg))
    ELSE IF e.cls \in ValueErrors
    THEN Returned(ErrorEnvelope("Invalid data: ", e.msg))
    ELSE IF e.cls \in ExceptionClasses
    THEN Returned(ErrorEnvelope("Unexpected error: ", e.msg))
    ELSE Raised(e)

\* ------------------------------------------------------- request handling
\* (not v) for the values a JSON field can hold.
Falsy(v) == v \in {None, EmptyStr, Str(<<"">>), Num(0)}

\* A parse that takes the last field of the blob.
parse_email_last(email) ==
    IF email.ty # "str"
    THEN Err(Exc("TypeError", "argument is not iterable"))
    ELSE Ok(Str(<<email.s[Len(email.s)]>>))
\* email.split(",")[-2] if "," in email else email
\* (a str is held as its comma-free fields, so split(",") is the tuple).
parse_email(email) ==
    IF email.ty # "str"
    THEN Err(Exc("TypeError", "argument is not iterable"))
    ELSE IF Len(email.s) > 1
    THEN Ok(Str(<<email.s[Len(email.s) - 1]>>))
    ELSE Ok(email)

\* ------------------------------------------------------------ text strings
IsSpace(ch) == ch \in {" ", "\n"}

RECURSIVE LStrip(_)
LStrip(s) == IF s = <<>> THEN <<>>
             ELSE IF IsSpace(Head(s)) THEN LStrip(Tail(s)) ELSE s

RECURSIVE RStrip(_)
RStrip(s) == IF s = <<>> THEN <<>>
             ELSE IF IsSpace(s[Len(s)]) THEN RStrip(SubSeq(s, 1, Len(s) - 1)) ELSE s

\* str.strip()
Strip(s) == RStrip(LStrip(s))

\* sep.join(parts)
RECURSIVE Join(_, _)
Join(sep, parts) ==
    IF parts = <<>> THEN <<>>
    ELSE IF Len(parts) = 1 THEN parts[1]
    ELSE parts[1] \o sep \o Join(sep, Tail(parts))

\* --------------------------------------------------------- Text Extractor
\* A downloaded document, as the two extraction libraries see it:
\*   opens   pdfplumber.open succeeds
\*   pages   page.extract_text() of each page (None or a str)
\*   ocr_ok  convert_from_path and pytesseract succeed
\*   ocr     pytesseract.image_to_string of each page image
PageTexts == {None, Str(<<" ">>), Str(<<"a">>)}
OcrTexts == {<<>>, <<"b">>}

SeqsOfLen(S, n) == [1..n -> S]
SeqsUpTo(S, n) == UNION {SeqsOfLen(S, k) : k \in 0..n}

Docs ==
    UNION {
      { [opens |-> TRUE, pages |-> p, ocr_ok |-> TRUE, ocr |-> o] :
            p \in SeqsOfLen(PageTexts, n), o \in SeqsOfLen(OcrTexts, n) }
      \cup
      { [opens |-> TRUE, pages |-> p, ocr_ok |-> FALSE, ocr |-> [i \in 1..n |-> <<>>]] :
            p \in SeqsOfLen(PageTexts, n) }
      \cup
      { [opens |-> FALSE, pages |-> [i \in 1..n |-> None], ocr_ok |-> TRUE, ocr |-> o] :
            o \in SeqsOfLen(OcrTexts, n) }
      \cup
      { [opens |-> FALSE, pages |-> [i \in 1..n |-> None], ocr_ok |-> FALSE,
         ocr |-> [i \in 1..n |-> <<>>]] }
      : n \in 0..MaxPages }

\* "".join(page.extract_text() or "" for page in pdf.pages)
text_layer(doc) ==
    Join(<<>>, [i \in 1..Len(doc.pages) |->
                   IF doc.pages[i] = None THEN <<>> ELSE doc.pages[i].s])

\* A test of the text layer that takes white space for text.
text_layer_usable_nonempty(doc) == doc.opens /\ text_layer(doc) # <<>>
\* (if text and text.strip()) inside the try block.
text_layer_usable(doc) == doc.opens /\ Strip(text_layer(doc)) # <<>>

\* "\n".join(pytesseract.image_to_string(image) for image in images)
ocr_text(doc) == Join(<<"\n">>, doc.ocr)

extract_text_from_pdf(doc) ==
    IF text_layer_usable(doc) THEN Ok(Str(text_layer(doc)))
    ELSE IF ~doc.ocr_ok
    THEN Err(Exc("PDFPageCountError", "Unable to get page count."))
    ELSE Ok(Str(ocr_text(doc)))

\* pytesseract.image_to_string calls made by extract_text_from_pdf.
ocr_calls(doc) ==
    IF text_layer_usable(doc) THEN 0
    ELSE IF doc.ocr_ok THEN Len(doc.ocr) ELSE 0

\* ------------------------------------------------- a model's reply as text
\* The text of a reply is a tuple of tokens: braces, a prose word, the code
\* fence markers, a line break, and Body(o), which stands for the members
\* ("k": v, ...) of the JSON object whose parsed value is the dict o.
LB == [c |-> "{"]
RB == [c |-> "}"]
W == [c |-> "w"]
NL == [c |-> "\n"]
FenceOpen == [c |-> "fence json"]
FenceClose == [c |-> "fence"]
Body(o) == [obj |-> o]

\* json.dumps of a dict.
ObjText(o) == IF DOMAIN o = {} THEN <<LB, RB>> ELSE <<LB, Body(o), RB>>

Indices(text, tok) == {i \in 1..Len(text) : text[i] = tok}
Min(S) == CHOOSE x \in S : \A y \in S : x <= y
Max(S) == CHOOSE x \in S : \A y \in S : x >= y

\* re.search of the pattern brace, any characters (greedy, DOTALL), brace:
\* the leftmost opening brace up to the last closing brace after it; None
\* when no closing brace follows an opening one.
re_search_braces(text) ==
    LET opens == Indices(text, LB)
        closes == Indices(text, RB)
    IN IF opens = {} \/ closes = {} \/ Max(closes) < Min(opens)
       THEN None
       ELSE Str(SubSeq(text, Min(opens), Max(closes)))

RECURSIVE DropTokens(_, _)
DropTokens(text, tok) ==
    IF text = <<>> THEN <<>>
    ELSE IF Head(text) = tok THEN DropTokens(Tail(text), tok)
    ELSE <<Head(text)>> \o DropTokens(Tail(text), tok)

\* json.loads(text): the text, white space apart, is one JSON object.
json_loads(text) ==
    LET t == DropTokens(text, NL)
    IN IF t = <<LB, RB>> THEN Ok(EmptyDict)
       ELSE IF Len(t) = 3 /\ t[1] = LB /\ t[3] = RB /\ DOMAIN t[2] = {"obj"}
       THEN Ok(t[2].obj)
       ELSE Err(Exc("JSONDecodeError", "Expecting value"))

\* The shapes in which a model wraps the JSON object o.
Pure(o) == ObjText(o)
Fenced(o) == <<FenceOpen, NL>> \o ObjText(o) \o <<NL, FenceClose>>
Prose(o) == <<W, W, NL>> \o ObjText(o) \o <<NL, W>>
BraceProse(o) == <<W, LB, W, RB, W, NL>> \o ObjText(o)
Shapes == {"pure", "fenced", "prose", "brace_prose"}
Wrap(shape, o) ==
    CASE shape = "pure" -> Pure(o)
      [] shape = "fenced" -> Fenced(o)
      [] shape = "prose" -> Prose(o)
      [] shape = "brace_prose" -> BraceProse(o)

\* Replies that hold no JSON object, or a malformed one.
NoJsonTexts == {<<>>, <<NL>>, <<W, W>>, <<RB, W, LB>>, <<LB, W>>}
MalformedTexts == {<<LB, W, RB>>}

\* ------------------------------------------------------------ HTTP replies
\* A reply to requests.get / requests.post: the call raises (NetError) or
\* returns a response with a status code and a body.
NetError(cls) == [neterr |-> cls]
Http(status, body) == [status |-> status, body |-> body]
NotJson == [json |-> FALSE]
JsonBody(doc) == [json |-> TRUE, doc |-> doc]
NetErrorClasses == {"Timeout", "ConnectionError"}

\* response.json() on a body that is not JSON raises requests' own
\* JSONDecodeError (a RequestException) or the json module's (a ValueError),
\* by the version of requests installed.
ResponseJsonErrors == {"RequestsJSONDecodeError", "JSONDecodeError"}

\* response.raise_for_status()
raise_for_status(resp, url) ==
    IF resp.status >= 400
    THEN Err(Exc("HTTPError", <<"Server Error for url", url>>))
    ELSE Ok(resp)

\* str.lower() and str.title() on the strings of the vocabulary.
Lower(s) ==
    CASE s = "Termination" -> "termination"
      [] s = "CAM" -> "cam"
      [] s = "Moderate" -> "moderate"
      [] OTHER -> s

Title(s) ==
    CASE s = "rent" -> "Rent"
      [] s = "term" -> "Term"
      [] s = "termination" -> "Termination"
      [] s = "co-tenancy" -> "Co-Tenancy"
      [] s = "CAM" -> "Cam"
      [] s = "maintenance" -> "Maintenance"
      [] s = "termination_early" -> "Termination_Early"
      [] s = "cam_cap" -> "Cam_Cap"
      [] s = "rent_base" -> "Rent_Base"
      [] OTHER -> s

\* type.replace("_", " ").title()
readable_type(s) ==
    CASE s = "termination_early" -> "Termination Early"
      [] s = "cam_cap" -> "Cam Cap"
      [] s = "rent_base" -> "Rent Base"
      [] OTHER -> Title(s)

Range(f) == {f[i] : i \in DOMAIN f}
Drop(d, k) == [x \in DOMAIN d \ {k} |-> d[x]]

\* --------------------------------------------------- Clause Extraction Stage
ClaudeUrl == "https://api.anthropic.com/v1/messages"

checklist == <<"rent", "term", "termination", "co-tenancy", "CAM", "maintenance">>

\* [item for item in checklist if item not in
\*    [c["type"].lower() for c in clauses] + claude_data.get("missing_clauses", [])]
missing_clauses_of(claude_data) ==
    LET clauses == Get(claude_data, "clauses", <<>>)
        found == {Lower(clauses[i]["type"]) : i \in DOMAIN clauses}
        absent == Range(Get(claude_data, "missing_clauses", <<>>))
    IN SelectSeq(checklist, LAMBDA item : item \notin found \cup absent)

\* The first item of a list that lacks one of the keys the code subscripts,
\* as the KeyError of that key; None when every item has them all.
first_key_error(items, keys) ==
    LET lacks(i) == {j \in 1..Len(keys) : keys[j] \notin DOMAIN items[i]}
        bad == {i \in 1..Len(items) : lacks(i) # {}}
    IN IF bad = {} THEN None
       ELSE Exc("KeyError", keys[Min(lacks(Min(bad)))])

\* claude_response.json().get("content", [{}])[0].get("text", "{}")
claude_result_of(doc) ==
    LET content == Get(doc, "content", <<EmptyDict>>)
    IN IF content = <<>>
       THEN Err(Exc("IndexError", "list index out of range"))
       ELSE Ok(Get(content[1], "text", <<LB, RB>>))

\* The JSON object of the reply text: lines 215-219.
extract_clause_json(claude_result) ==
    LET json_match == re_search_braces(claude_result)
    IN IF json_match = None
       THEN Err(Exc("ValueError", "No valid JSON found in Claude response"))
       ELSE json_loads(json_match.s)

validate_claude_output_fatal(claude_data) ==
    LET clauses == Get(claude_data, "clauses", <<>>)
    IN IF \E i \in DOMAIN clauses : "type" \notin DOMAIN clauses[i]
       THEN Err(Exc("AttributeError", "'NoneType' object has no attribute 'lower'"))
       ELSE IF missing_clauses_of(claude_data) # <<>>
       THEN Err(Exc("ValueError", "Missing clauses"))
       ELSE Ok([claude_data |-> claude_data,
                missing_clauses |-> missing_clauses_of(claude_data)])

\* The rent log and the completeness check on the parsed ClauseSet:
\* lines 222-230.  c.get("type").lower() raises on a clause without a type.
validate_claude_output(claude_data) ==
    LET clauses == Get(claude_data, "clauses", <<>>)
    IN IF \E i \in DOMAIN clauses : "type" \notin DOMAIN clauses[i]
       THEN Err(Exc("AttributeError", "'NoneType' object has no attribute 'lower'"))
       ELSE Ok([claude_data |-> claude_data,
                missing_clauses |-> missing_clauses_of(claude_data)])

\* Lines 210-230: from the reply of the clause model to the validated
\* ClauseSet.  jcls is the class response.json() raises on a non-JSON body.
clause_stage(resp, jcls) ==
    IF ~raise_for_status(resp, ClaudeUrl).ok THEN raise_for_status(resp, ClaudeUrl)
    ELSE IF ~resp.body.json THEN Err(Exc(jcls, "Expecting value"))
    ELSE LET claude_result == claude_result_of(resp.body.doc)
         IN IF ~claude_result.ok THEN claude_result
            ELSE LET parsed == extract_clause_json(claude_result.val)
                 IN IF ~parsed.ok THEN parsed
                    ELSE validate_claude_output(parsed.val)

\* if missing_clauses: logger.warning(...)  (lines 229-230)
completeness_warning(missing_clauses) == missing_clauses # <<>>

\* ------------------------------------------------------ Risk Analysis Stage
GrokUrl == "https://api.x.ai/v1/messages"

\* grok_json.get("choices", [{}])[0].get("message", {}).get("content", "")
grok_content_of(doc) ==
    LET choices == Get(doc, "choices", <<EmptyDict>>)
    IN IF choices = <<>>
       THEN Err(Exc("IndexError", "list index out of range"))
       ELSE Ok(Get(Get(choices[1], "message", EmptyDict), "content", <<>>))

\* Lines 255-258: the content is parsed as it is.
parse_grok_content(grok_data) ==
    IF grok_data = <<>> \/ DropTokens(grok_data, NL) = <<>>
    THEN Err(Exc("ValueError", "No valid JSON block found in Grok response"))
    ELSE json_loads(grok_data)

\* Lines 249-258: from the reply of the risk model to the RiskSet.
risk_stage(resp, jcls) ==
    IF ~raise_for_status(resp, GrokUrl).ok THEN raise_for_status(resp, GrokUrl)
    ELSE IF ~resp.body.json THEN Err(Exc(jcls, "Expecting value"))
    ELSE LET grok_content == grok_content_of(resp.body.doc)
         IN IF ~grok_content.ok THEN grok_content
            ELSE parse_grok_content(grok_content.val)

\* ---------------------------------------------------------- Report Renderer
\* One flowable of the story: a Paragraph (its style and the pieces its
\* f-string puts together) or a Spacer.
P(style, parts) == [style |-> style, parts |-> parts]
Spacer == [style |-> "Spacer", parts |-> <<>>]

\* os.getenv('CURRENT_DATE', '2025-07-19 15:52:00 CDT')
DefaultDate == "2025-07-19 15:52:00 CDT"
getenv_current_date(env) == IF env = None THEN DefaultDate ELSE env.s

\* grok_result.get('deal_impact_score', 8)
DefaultScore == 8
\* 'Low' if score >= 8 else 'Moderate'
LowRiskCutoff == 8
deal_impact_score_of(grok_result) == Get(grok_result, "deal_impact_score", DefaultScore)

\* [r for r in risks if r.get("severity", "").lower() == sev]
bucket(grok_result, sev) ==
    SelectSeq(Get(grok_result, "risks", <<>>),
              LAMBDA r : Lower(Get(r, "severity", "")) = sev)

high_risks(grok_result) == bucket(grok_result, "high")
moderate_risks(grok_result) == bucket(grok_result, "moderate")
low_risks(grok_result) == bucket(grok_result, "low")

clause_line(clause) ==
    P("Normal", <<Title(clause["type"]), clause["description"],
                  "Page", clause["page"], clause["confidence"]>>)

risk_line(risk) ==
    P("Normal", <<readable_type(risk["type"]), "Page", Get(risk, "page", "N/A"),
                  risk["noi_impact"], Get(risk, "calculation", "N/A")>>)

review_line(item) ==
    P("Normal", <<"Page", item["page"], readable_type(item["type"]), item["reason"]>>)

Lines(items, line(_)) == [i \in 1..Len(items) |-> line(items[i])]

\* A section that prints its heading whether or not it has risks.
risk_section_always_heading(heading, risks) ==
    <<P("Heading3", <<heading>>)>> \o Lines(risks, risk_line)
\* Lines 283-297: a bucket's heading and its risks, when it has any.
risk_section(heading, risks) ==
    IF risks = <<>> THEN <<>>
    ELSE <<P("Heading3", <<heading>>)>> \o Lines(risks, risk_line)

\* The first KeyError the story's subscripts raise, in the order the code
\* reaches them; None when it raises none.
render_error(claude_data, grok_result) ==
    LET e1 == first_key_error(Get(claude_data, "clauses", <<>>),
                              <<"type", "description", "page", "confidence">>)
        e2 == first_key_error(high_risks(grok_result) \o moderate_risks(grok_result)
                                \o low_risks(grok_result),
                              <<"type", "noi_impact">>)
        e3 == first_key_error(Get(grok_result, "review_manually", <<>>),
                              <<"type", "page", "reason">>)
    IN IF e1 # None THEN e1 ELSE IF e2 # None THEN e2 ELSE e3

\* Lines 265-315: the story, for inputs whose subscripts raise nothing.
story_of(claude_data, grok_result, env) ==
    LET clauses == Get(claude_data, "clauses", <<>>)
        absent == Get(claude_data, "missing_clauses", <<>>)
        high == high_risks(grok_result)
        moderate == moderate_risks(grok_result)
        low == low_risks(grok_result)
        review == Get(grok_result, "review_manually", <<>>)
        highlights == Get(grok_result, "positive_highlights", <<>>)
        score == deal_impact_score_of(grok_result)
    IN <<P("Heading1", <<"Lease Summary Report">>),
         P("Normal", <<"Property", "[Property Name]">>),
         P("Normal", <<"Uploaded", getenv_current_date(env)>>),
         P("Normal", <<"Generated by", "LeaseScan AI">>),
         P("Normal", <<"Trust Score", Get(claude_data, "trust_score", "95")>>),
         Spacer,
         P("Heading2", <<"Key Details">>)>>
       \o Lines(clauses, clause_line)
       \o (IF absent = <<>> THEN <<>>
           ELSE <<P("Normal", <<"Missing Clauses">> \o [i \in 1..Len(absent) |-> Title(absent[i])])>>)
       \o <<Spacer, P("Heading2", <<"Risk Flags">>)>>
       \o risk_section("High Risk", high)
       \o risk_section("Moderate Risk", moderate)
       \o risk_section("Low Risk", low)
       \o (IF high = <<>> /\ moderate = <<>> /\ low = <<>>
           THEN <<P("Normal", <<"No Significant Risks Found">>)>>
           ELSE <<>>)
       \o (IF review = <<>> THEN <<>>
           ELSE <<Spacer, P("Heading2", <<"Review Manually to Validate">>)>>
                \o Lines(review, review_line))
       \o <<Spacer>>
       \o (IF highlights = <<>> THEN <<>>
           ELSE <<P("Heading2", <<"Positive Highlights">>)>>
                \o [i \in 1..Len(highlights) |-> P("Normal", <<highlights[i]>>)])
       \o <<Spacer,
            P("Heading2", <<"Investor Summary">>),
            P("Normal", <<Get(grok_result, "investor_summary",
                              "Stable lease with minimal risks.")>>),
            [style |-> "Normal", parts |-> <<"Deal Impact Score">>,
             score |-> score,
             label |-> IF score >= LowRiskCutoff THEN "Low" ELSE "Moderate"]>>

\* Lines 262-318: the report of a ClauseSet and a RiskSet, or the exception
\* building it raises.
render(claude_data, grok_result, env) ==
    IF render_error(claude_data, grok_result) # None
    THEN Err(render_error(claude_data, grok_result))
    ELSE Ok(story_of(claude_data, grok_result, env))

\* ------------------------------------------------ what the two models reply
\* A ClauseRecord: the keys process_lease reads.
FullClause(t) == [type |-> t, description |-> "d", page |-> "3", confidence |-> "98"]
ClauseTypes == {"rent", "Termination", "CAM"}
ClauseRecords ==
    {FullClause(t) : t \in ClauseTypes}
    \cup {Drop(FullClause("rent"), k) : k \in DOMAIN FullClause("rent")}

BaseClauseSet ==
    [clauses |-> <<FullClause("rent")>>,
     missing_clauses |-> <<"co-tenancy">>,
     trust_score |-> "92"]

AbsentLists ==
    {<<>>, <<"CAM">>, <<"term", "termination", "co-tenancy", "CAM", "maintenance">>}

ClauseSets ==
    {[BaseClauseSet EXCEPT !.clauses = cl] : cl \in SeqsUpTo(ClauseRecords, MaxClauses)}
    \cup {[BaseClauseSet EXCEPT !.missing_clauses = m] : m \in AbsentLists}
    \cup {Drop(BaseClauseSet, k) : k \in DOMAIN BaseClauseSet}
    \cup {EmptyDict}

\* A RiskRecord: the keys process_lease reads.
FullRisk(sev, t) ==
    [type |-> t, severity |-> sev, noi_impact |-> "120000",
     calculation |-> "penalty", page |-> "1"]
Severities == {"high", "Moderate", "low", "severe"}
RiskRecords ==
    {FullRisk(sev, "termination_early") : sev \in Severities}
    \cup {FullRisk("high", "cam_cap")}
\* A risk without its NOI estimate or its calculation.
PartialRisks ==
    {Drop(FullRisk("high", "termination_early"), k) : k \in {"noi_impact", "calculation"}}

FullReview == [type |-> "rent_base", page |-> "2", reason |-> "ambiguous"]

BaseRiskSet ==
    [risks |-> <<FullRisk("high", "termination_early")>>,
     deal_impact_score |-> 7,
     review_manually |-> <<FullReview>>,
     positive_highlights |-> <<"Strong rent escalation">>,
     investor_summary |-> "summary"]

\* The scores a risk model returns; 10 - 2 * 5 = 0 is the rubric's sum for
\* five high risks when the model does not apply the floor itself.
FiveHighRisks == [i \in 1..5 |-> FullRisk("high", "termination_early")]
Scores == {-2, 0, 1, 8, 10}

RiskSets ==
    {[BaseRiskSet EXCEPT !.risks = rl] : rl \in SeqsUpTo(RiskRecords, MaxRisks)}
    \cup {[BaseRiskSet EXCEPT !.risks = <<r>>] : r \in PartialRisks}
    \cup {[BaseRiskSet EXCEPT !.deal_impact_score = sc] : sc \in Scores}
    \cup {[BaseRiskSet EXCEPT !.risks = FiveHighRisks, !.deal_impact_score = 0]}
    \cup {[BaseRiskSet EXCEPT !.review_manually = <<Drop(FullReview, k)>>] : k \in DOMAIN FullReview}
    \cup {Drop(BaseRiskSet, k) : k \in DOMAIN BaseRiskSet}
    \cup {EmptyDict}

\* The request bodies a client sends.
FileUrl == Str(<<"https://x/lease.pdf">>)
PlainEmail == Str(<<"b@x.com">>)
BlobEmail == Str(<<"a", "b@x.com", "c">>)
Opt(k, vals) == {EmptyDict} \cup {(k :> v) : v \in vals}
RequestDicts ==
    {f @@ e : f \in Opt("file_url", {Str(<<"">>), FileUrl}),
              e \in Opt("email", {Str(<<"">>), PlainEmail, BlobEmail, Num(5)})}
InvalidBody == [kind |-> "invalid"]
ArrayBody == [kind |-> "array"]
ObjectBody(d) == [kind |-> "object", dict |-> d]
RequestBodies == {InvalidBody, ArrayBody} \cup {ObjectBody(d) : d \in RequestDicts}

\* The replies of the document host, of the two models and of the store.
FetchReplies ==
    {NetError(c) : c \in NetErrorClasses}
    \cup {Http(404, NotJson)}
    \cup {Http(200, d) : d \in Docs}

ApiErrorReplies ==
    {NetError(c) : c \in NetErrorClasses} \cup {Http(500, NotJson), Http(200, NotJson)}

ClaudeTexts ==
    {Wrap(sh, o) : sh \in Shapes, o \in ClauseSets} \cup NoJsonTexts \cup MalformedTexts
ClaudeReplies ==
    ApiErrorReplies
    \cup {Http(200, JsonBody(d)) : d \in {EmptyDict, [content |-> <<>>], [content |-> <<EmptyDict>>]}}
    \cup {Http(200, JsonBody([content |-> <<[text |-> t]>>])) : t \in ClaudeTexts}

GrokTexts ==
    {Pure(o) : o \in RiskSets}
    \cup {Wrap(sh, BaseRiskSet) : sh \in Shapes}
    \cup NoJsonTexts \cup MalformedTexts
GrokReplies ==
    ApiErrorReplies
    \cup {Http(200, JsonBody(d)) : d \in {EmptyDict, [choices |-> <<>>], [choices |-> <<EmptyDict>>]}}
    \cup {Http(200, JsonBody([choices |-> <<[message |-> [content |-> t]]>>])) : t \in GrokTexts}

UploadOutcomes == {"ok", "ClientError", "S3UploadFailedError"}
PresignOutcomes == {"ok", "ClientError", "NoCredentialsError"}
\* os.remove(filename); os.remove(pdf_filename): both succeed, or the first
\* or the second raises OSError.
RemoveOutcomes == {"ok", "first_fails", "second_fails"}

\* ------------------------------------------------------------------- state
VARIABLES
    loop,       \* the WorkItem whose handler holds the event-loop thread, or 0
    pc,         \* where each WorkItem's handler stands
    frame,      \* the locals of each WorkItem's process_lease call
    unique_id,  \* the identifier uuid4 gave each WorkItem, or 0
    result,     \* what process_lease gave back to its caller
    calls,      \* the external calls each WorkItem has made
    fs,         \* the files in /tmp
    s3,         \* the keys in the bucket
    environ,    \* the CURRENT_DATE of the process environment, or None
    pending     \* the requests the clients have yet to send

vars == <<loop, pc, frame, unique_id, result, calls, fs, s3, environ, pending>>

\* A local is held in the frame while the code still reads it.
EmptyFrame ==
    [body |-> None, email |-> None, r |-> None, text |-> None, ocr_calls |-> 0,
     claude_response |-> None, claude_data |-> None, missing_clauses |-> None,
     grok_response |-> None, grok_result |-> None, story |-> None,
     upload |-> None]

NoCalls == [fetch |-> 0, claude |-> 0, grok |-> 0, upload |-> 0, presign |-> 0]

\* filename, pdf_filename and s3_pdf_key of lines 126-128.
filename(id) == <<"/tmp/lease_", id, ".pdf">>
pdf_filename(id) == <<"/tmp/report_", id, ".pdf">>
s3_pdf_key(id) == <<"reports/", id, "/report.pdf">>
presigned_url(key) == <<"https://bucket.s3/", key, "?X-Amz-Expires=86400">>

\* An identifier source that gives every request the same identifier.
uuid4_reused == Min(1..NumWorkItems)
\* uuid.uuid4().hex: an identifier no WorkItem holds yet.
uuid4 == Min((1..NumWorkItems) \ Range(unique_id))

\* CURRENT_DATE in the environment the server is started in: unset, or set.
Environs == {None, Str("2025-08-01 09:00:00 CDT")}

\* The server after start-up.
Started ==
    /\ loop = 0
    /\ pc = [w \in WorkItems |-> "idle"]
    /\ frame = [w \in WorkItems |-> EmptyFrame]
    /\ unique_id = [w \in WorkItems |-> 0]
    /\ result = [w \in WorkItems |-> NoResult]
    /\ calls = [w \in WorkItems |-> NoCalls]
    /\ fs = {}
    /\ s3 = {}
    /\ environ \in Environs

\* One request is served.
Init == Started /\ pending = 1

\* NumWorkItems requests are served, overlapping as the event loop allows,
\* by a server started with CURRENT_DATE unset.
InitConcurrent == Started /\ environ = None /\ pending = NumWorkItems

\* process_lease returns (or raises) res: the frame is gone and the loop
\* thread is free.
Return(w, res) ==
    /\ result' = [result EXCEPT ![w] = res]
    /\ pc' = [pc EXCEPT ![w] = "done"]
    /\ frame' = [frame EXCEPT ![w] = EmptyFrame]
    /\ loop' = 0

\* An exception raised in the try block reaches the except clauses.
Raise(w, e) == Return(w, except_clauses(e))

\* The handler goes on to its next external call, keeping the loop thread.
Goto(w, label, fr) ==
    /\ pc' = [pc EXCEPT ![w] = label]
    /\ frame' = [frame EXCEPT ![w] = fr]
    /\ loop' = w
    /\ UNCHANGED result

\* A call that is made again after its first attempt.
Call_retry(w, name) == calls' = [calls EXCEPT ![w][name] = @ + 2]
\* WorkItem w makes the external call name.
Call(w, name) == calls' = [calls EXCEPT ![w][name] = @ + 1]

\* A request reaches the server: the coroutine starts and suspends in
\* await request.json() (lines 108-111).
Arrive(w) ==
    /\ loop = 0
    /\ pending > 0
    /\ pc[w] = "idle"
    /\ \A v \in WorkItems : v < w => pc[v] # "idle"
    /\ pc' = [pc EXCEPT ![w] = "await_json"]
    /\ pending' = pending - 1
    /\ UNCHANGED <<loop, frame, unique_id, result, calls, fs, s3, environ>>

\* The request's body has been read from the connection.
BodyArrives(w, body) ==
    /\ loop = 0
    /\ pc[w] = "await_json"
    /\ pc' = [pc EXCEPT ![w] = "body_ready"]
    /\ frame' = [frame EXCEPT ![w].body = body]
    /\ UNCHANGED <<loop, unique_id, result, calls, fs, s3, environ, pending>>

\* A validation that looks at file_url alone.
missing_field_url_only(file_url, email) == Falsy(file_url)
\* (not file_url or not email) of line 116.
missing_field(file_url, email) == Falsy(file_url) \/ Falsy(email)

\* Lines 111-133: the coroutine resumes, validates the request, parses the
\* email, names its files and starts the download.
Validate(w) ==
    /\ loop = 0
    /\ pc[w] = "body_ready"
    /\ LET body == frame[w].body IN
       IF body.kind = "invalid"
       THEN /\ Raise(w, Exc("JSONDecodeError", "Expecting value"))
            /\ UNCHANGED <<unique_id, calls>>
       ELSE IF body.kind = "array"
       THEN /\ Raise(w, Exc("AttributeError", "'list' object has no attribute 'get'"))
            /\ UNCHANGED <<unique_id, calls>>
       ELSE LET file_url == Get(body.dict, "file_url", None)
                email == Get(body.dict, "email", None)
            IN IF missing_field(file_url, email)
               THEN /\ Return(w, Returned(MissingEnvelope))
                    /\ UNCHANGED <<unique_id, calls>>
               ELSE IF ~parse_email(email).ok
               THEN /\ Raise(w, parse_email(email).exc)
                    /\ UNCHANGED <<unique_id, calls>>
               ELSE /\ unique_id' = [unique_id EXCEPT ![w] = uuid4]
                    /\ Call(w, "fetch")
                    /\ Goto(w, "fetch", [frame[w] EXCEPT !.email = parse_email(email).val])
    /\ UNCHANGED <<fs, s3, environ, pending>>

\* requests.get returns or raises (line 133).
FetchReply(w, reply) ==
    /\ loop = w
    /\ pc[w] = "fetch"
    /\ Goto(w, "fetched", [frame[w] EXCEPT !.r = reply])
    /\ UNCHANGED <<unique_id, calls, fs, s3, environ, pending>>

\* Lines 133-209: the document is written to filename, its text extracted
\* and the clause model called.
HandleFetched(w) ==
    /\ loop = w
    /\ pc[w] = "fetched"
    /\ LET r == frame[w].r IN
       IF "neterr" \in DOMAIN r
       THEN /\ Raise(w, Exc(r.neterr, <<"fetch", FileUrl>>))
            /\ UNCHANGED <<calls, fs>>
       ELSE IF ~raise_for_status(r, FileUrl).ok
       THEN /\ Raise(w, raise_for_status(r, FileUrl).exc)
            /\ UNCHANGED <<calls, fs>>
       ELSE LET text == extract_text_from_pdf(r.body) IN
            /\ fs' = fs \cup {filename(unique_id[w])}
            /\ IF ~text.ok
               THEN /\ Raise(w, text.exc)
                    /\ UNCHANGED calls
               ELSE /\ Call(w, "claude")
                    /\ Goto(w, "claude", [frame[w] EXCEPT
                              !.r = None, !.text = text.val,
                              !.ocr_calls = ocr_calls(r.body)])
    /\ UNCHANGED <<unique_id, s3, environ, pending>>

\* requests.post to the clause model returns or raises (line 195).
ClaudeReply(w, reply) ==
    /\ loop = w
    /\ pc[w] = "claude"
    /\ Goto(w, "claude_returned", [frame[w] EXCEPT
              !.text = None, !.ocr_calls = 0, !.claude_response = reply])
    /\ UNCHANGED <<unique_id, calls, fs, s3, environ, pending>>

\* Lines 210-248: the reply is parsed and validated and the risk model
\* called.
HandleClaude(w) ==
    /\ loop = w
    /\ pc[w] = "claude_returned"
    /\ LET resp == frame[w].claude_response IN
       IF "neterr" \in DOMAIN resp
       THEN /\ Raise(w, Exc(resp.neterr, <<"post", ClaudeUrl>>))
            /\ UNCHANGED calls
       ELSE \E jcls \in ResponseJsonErrors :
              LET stage == clause_stage(resp, jcls) IN
              IF ~stage.ok
              THEN /\ Raise(w, stage.exc)
                   /\ UNCHANGED calls
              ELSE /\ Call(w, "grok")
                   /\ Goto(w, "grok", [frame[w] EXCEPT
                             !.claude_response = None,
                             !.claude_data = stage.val.claude_data,
                             !.missing_clauses = stage.val.missing_clauses])
    /\ UNCHANGED <<unique_id, fs, s3, environ, pending>>

\* requests.post to the risk model returns or raises (line 243).
GrokReply(w, reply) ==
    /\ loop = w
    /\ pc[w] = "grok"
    /\ Goto(w, "grok_returned", [frame[w] EXCEPT !.missing_clauses = None, !.grok_response = reply])
    /\ UNCHANGED <<unique_id, calls, fs, s3, environ, pending>>

\* Lines 249-322: the reply is parsed, the report built at pdf_filename and
\* its upload started.
HandleGrok(w) ==
    /\ loop = w
    /\ pc[w] = "grok_returned"
    /\ LET resp == frame[w].grok_response IN
       IF "neterr" \in DOMAIN resp
       THEN /\ Raise(w, Exc(resp.neterr, <<"post", GrokUrl>>))
            /\ UNCHANGED <<calls, fs>>
       ELSE \E jcls \in ResponseJsonErrors :
              LET stage == risk_stage(resp, jcls) IN
              IF ~stage.ok
              THEN /\ Raise(w, stage.exc)
                   /\ UNCHANGED <<calls, fs>>
              ELSE LET pdf == render(frame[w].claude_data, stage.val, environ) IN
                   IF ~pdf.ok
                   THEN /\ Raise(w, pdf.exc)
                        /\ UNCHANGED <<calls, fs>>
                   ELSE /\ fs' = fs \cup {pdf_filename(unique_id[w])}
                        /\ Call(w, "upload")
                        /\ Goto(w, "upload", [frame[w] EXCEPT
                                  !.grok_response = None,
                                  !.grok_result = stage.val,
                                  !.story = pdf.val])
    /\ UNCHANGED <<unique_id, s3, environ, pending>>

\* s3_client.upload_file returns or raises (line 322).
UploadReply(w, outcome) ==
    /\ loop = w
    /\ pc[w] = "upload"
    /\ s3' = IF outcome = "ok" THEN s3 \cup {s3_pdf_key(unique_id[w])} ELSE s3
    /\ Goto(w, "uploaded", [frame[w] EXCEPT
              !.claude_data = None, !.grok_result = None, !.story = None,
              !.upload = Str(<<outcome>>)])
    /\ UNCHANGED <<unique_id, calls, fs, environ, pending>>

\* Lines 322-343: the signed URL, the removal of the two files and the
\* success envelope.
Finish(w) ==
    /\ loop = w
    /\ pc[w] = "uploaded"
    /\ LET outcome == frame[w].upload.s[1]
           id == unique_id[w]
       IN
       IF outcome # "ok"
       THEN /\ Raise(w, Exc(outcome, <<"upload", s3_pdf_key(id)>>))
            /\ UNCHANGED <<calls, fs>>
       ELSE /\ Call(w, "presign")
            /\ \E signed \in PresignOutcomes, removed \in RemoveOutcomes :
                 IF signed # "ok"
                 THEN /\ Raise(w, Exc(signed, <<"presign", s3_pdf_key(id)>>))
                      /\ UNCHANGED fs
                 ELSE IF removed = "first_fails"
                 THEN /\ Raise(w, Exc("OSError", <<"remove", filename(id)>>))
                      /\ UNCHANGED fs
                 ELSE IF removed = "second_fails"
                 THEN /\ Raise(w, Exc("OSError", <<"remove", pdf_filename(id)>>))
                      /\ fs' = fs \ {filename(id)}
                 ELSE /\ Return(w, Returned(SuccessEnvelope(presigned_url(s3_pdf_key(id)),
                                                            frame[w].email)))
                      /\ fs' = fs \ {filename(id), pdf_filename(id)}
    /\ UNCHANGED <<unique_id, s3, environ, pending>>

\* The steps of WorkItem w.
Step(w) ==
        \/ Arrive(w)
        \/ \E body \in RequestBodies : BodyArrives(w, body)
        \/ Validate(w)
        \/ \E reply \in FetchReplies : FetchReply(w, reply)
        \/ HandleFetched(w)
        \/ \E reply \in ClaudeReplies : ClaudeReply(w, reply)
        \/ HandleClaude(w)
        \/ \E reply \in GrokReplies : GrokReply(w, reply)
        \/ HandleGrok(w)
        \/ \E outcome \in UploadOutcomes : UploadReply(w, outcome)
        \/ Finish(w)

Next == \E w \in WorkItems : Step(w)

Spec == Init /\ [][Next]_vars

SpecConcurrent == InitConcurrent /\ [][Next]_vars

\* ------------------------------------------------------------------ claims
Done(w) == pc[w] = "done"
IsSuccessEnvelope(env) ==
    /\ DOMAIN env = {"status", "message", "report_url", "email"}
    /\ env.status = "success"
IsErrorEnvelope(env) ==
    /\ DOMAIN env = {"status", "message"}
    /\ env.status = "error"
ReturnedError(w) ==
    /\ Done(w)
    /\ result[w].kind = "return"
    /\ IsErrorEnvelope(result[w].env)
\* The WorkItem's handler takes a step.
Moves(w) == pc'[w] # pc[w]

\* C1: once process_lease has returned for a request that passed validation
\* (it was given its identifier), neither /tmp/lease_<id>.pdf nor
\* /tmp/report_<id>.pdf exists.
C1_NoTransientFileAfterReturn ==
    \A w \in WorkItems :
        Done(w) /\ unique_id[w] # 0 =>
            /\ filename(unique_id[w]) \notin fs
            /\ pdf_filename(unique_id[w]) \notin fs

\* C2: whatever stage fails, process_lease returns exactly one envelope, of
\* the success shape or of the error shape, and no exception leaves it; it
\* gives nothing back before it is done.
C2_ExactlyOneEnvelope ==
    \A w \in WorkItems :
        /\ Done(w) =>
              /\ result[w].kind = "return"
              /\ IsSuccessEnvelope(result[w].env) \/ IsErrorEnvelope(result[w].env)
        /\ ~Done(w) => result[w] = NoResult

\* A failure after the risk model's reply (parsing, rendering) came back as
\* the catch-all's error envelope.
C2_Witness ==
    \E w \in WorkItems :
        /\ ReturnedError(w)
        /\ result[w].env.message[1] = "Unexpected error: "
        /\ calls[w].grok = 1

\* C3: a request (a JSON object) whose file_url or email is missing or empty
\* is answered with the error envelope whose message says "Missing ...",
\* and handling it makes no network call and creates no file.
FieldMissing(d, k) == k \notin DOMAIN d \/ d[k] = None \/ d[k] = Str(<<"">>)
C3_MissingFieldRejected ==
    [][\A w \in WorkItems :
          /\ pc[w] = "body_ready"
          /\ frame[w].body.kind = "object"
          /\ FieldMissing(frame[w].body.dict, "file_url")
               \/ FieldMissing(frame[w].body.dict, "email")
          /\ Moves(w)
          => /\ Done(w)'
             /\ result'[w] = Returned(MissingEnvelope)
             /\ calls'[w] = NoCalls
             /\ unique_id'[w] = 0
             /\ fs' = fs
             /\ s3' = s3]_vars

C3_Witness ==
    \E w \in WorkItems :
        /\ Done(w)
        /\ result[w] = Returned(MissingEnvelope)
        /\ calls[w] = NoCalls
        /\ fs = {}

\* C4: when the text layer of the downloaded document is empty or white
\* space only and OCR fails or yields no text either, the handler returns
\* an error envelope and does not call the clause model.
AllSpace(s) == \A i \in 1..Len(s) : IsSpace(s[i])
NoTextLayer(doc) ==
    ~doc.opens \/ \A i \in 1..Len(doc.pages) :
                      doc.pages[i] = None \/ AllSpace(doc.pages[i].s)
NoOcrText(doc) == ~doc.ocr_ok \/ \A i \in 1..Len(doc.ocr) : AllSpace(doc.ocr[i])
C4_NoTextFailsExtraction ==
    [][\A w \in WorkItems :
          /\ pc[w] = "fetched"
          /\ "status" \in DOMAIN frame[w].r
          /\ frame[w].r.status = 200
          /\ NoTextLayer(frame[w].r.body)
          /\ NoOcrText(frame[w].r.body)
          /\ Moves(w)
          => /\ ReturnedError(w)'
             /\ calls'[w].claude = 0]_vars

\* C5: while one WorkItem waits inside a blocking call (document fetch, a
\* model call, the upload), another WorkItem whose request has been read can
\* take its next step.
BlockingCalls == {"fetch", "claude", "grok", "upload"}
C5_OthersProgressDuringBlockingCall ==
    \A a \in WorkItems, b \in WorkItems :
        a # b /\ pc[a] \in BlockingCalls /\ pc[b] = "body_ready"
            => ENABLED Step(b)

\* The text of the clause model's reply held by WorkItem w, when the reply
\* is a 200 response whose first content block carries text.
HasClaudeText(w) ==
    /\ pc[w] = "claude_returned"
    /\ "status" \in DOMAIN frame[w].claude_response
    /\ frame[w].claude_response.status = 200
    /\ frame[w].claude_response.body.json
    /\ "content" \in DOMAIN frame[w].claude_response.body.doc
    /\ frame[w].claude_response.body.doc.content # <<>>
    /\ "text" \in DOMAIN frame[w].claude_response.body.doc.content[1]
ClaudeText(w) == frame[w].claude_response.body.doc.content[1].text
\* Every ClauseRecord carries its type tag.
TypedClauses(o) ==
    \A i \in DOMAIN Get(o, "clauses", <<>>) : "type" \in DOMAIN o.clauses[i]

\* C6: a reply of the clause model that is the JSON object alone, the object
\* in a fenced code block, or the object with prose around it (prose with
\* braces included) is parsed to that object and the stage goes on; a reply
\* with no JSON object ends the request with an error envelope.
C6_ClauseJsonExtraction ==
    [][\A w \in WorkItems :
          HasClaudeText(w) /\ Moves(w) =>
            /\ \A sh \in Shapes, o \in ClauseSets :
                  ClaudeText(w) = Wrap(sh, o) /\ TypedClauses(o) =>
                      /\ pc'[w] = "grok"
                      /\ frame'[w].claude_data = o
            /\ ClaudeText(w) \in NoJsonTexts => ReturnedError(w)']_vars

\* The content of the risk model's reply held by WorkItem w.
HasGrokContent(w) ==
    /\ pc[w] = "grok_returned"
    /\ "status" \in DOMAIN frame[w].grok_response
    /\ frame[w].grok_response.status = 200
    /\ frame[w].grok_response.body.json
    /\ "choices" \in DOMAIN frame[w].grok_response.body.doc
    /\ frame[w].grok_response.body.doc.choices # <<>>
    /\ "message" \in DOMAIN frame[w].grok_response.body.doc.choices[1]
GrokContent(w) == frame[w].grok_response.body.doc.choices[1].message.content
\* A ClauseSet and a RiskSet the renderer takes without raising.
Renders(claude_data, o) == render_error(claude_data, o) = None

\* C7: the risk stage extracts JSON as the clause stage does: risk content
\* that is the JSON object alone, fenced, or surrounded by prose is parsed
\* to the same RiskSet; blank and unparseable content end the request with
\* an error envelope.
C7_RiskJsonExtraction ==
    [][\A w \in WorkItems :
          HasGrokContent(w) /\ Moves(w) =>
            /\ \A sh \in Shapes \ {"brace_prose"}, o \in RiskSets :
                  GrokContent(w) = Wrap(sh, o) /\ Renders(frame[w].claude_data, o) =>
                      /\ pc'[w] = "upload"
                      /\ frame'[w].grok_result = o
            /\ GrokContent(w) \in NoJsonTexts \cup MalformedTexts
                  => ReturnedError(w)']_vars

\* Every record the renderer subscripts by "type" carries it.
TypedRecords(claude_data, o) ==
    /\ TypedClauses(claude_data)
    /\ \A i \in DOMAIN Get(o, "risks", <<>>) : "type" \in DOMAIN o.risks[i]
    /\ \A i \in DOMAIN Get(o, "review_manually", <<>>) : "type" \in DOMAIN o.review_manually[i]

\* C8: once the risk model's reply has been parsed, rendering raises on no
\* missing optional field (page, description, confidence, noi_impact,
\* calculation, reason): the handler reaches the upload.
C8_RenderToleratesMissingFields ==
    [][\A w \in WorkItems :
          /\ HasGrokContent(w)
          /\ parse_grok_content(GrokContent(w)).ok
          /\ TypedRecords(frame[w].claude_data, parse_grok_content(GrokContent(w)).val)
          /\ Moves(w)
          => pc'[w] = "upload"]_vars

\* C9: the deal-impact score of the RiskSet the report is rendered from, and
\* the score the report prints, are at least the floor.
ScoreFloor == 1
C9_ScoreClamped ==
    \A w \in WorkItems :
        pc[w] = "upload" =>
            /\ deal_impact_score_of(frame[w].grok_result) >= ScoreFloor
            /\ frame[w].story[Len(frame[w].story)].score >= ScoreFloor

\* The checklist items a ClauseSet neither finds (whatever the case of the
\* type tag) nor confirms absent.
Unaccounted(o) ==
    {item \in Range(checklist) :
        /\ \A i \in DOMAIN Get(o, "clauses", <<>>) : Lower(o.clauses[i]["type"]) # Lower(item)
        /\ item \notin Range(Get(o, "missing_clauses", <<>>))}

\* C10: the completeness check is advisory.  For a parsed ClauseSet whose
\* clauses carry their type, the handler goes on to the risk model's call,
\* and when a checklist item is neither found nor confirmed absent the
\* warning is recorded and names that item.
C10_CompletenessAdvisory ==
    [][\A w \in WorkItems :
          /\ HasClaudeText(w)
          /\ extract_clause_json(ClaudeText(w)).ok
          /\ TypedClauses(extract_clause_json(ClaudeText(w)).val)
          /\ Moves(w)
          => LET o == extract_clause_json(ClaudeText(w)).val IN
             /\ pc'[w] = "grok"
             /\ calls'[w].grok = 1
             /\ frame'[w].claude_data = o
             /\ Unaccounted(o) # {} => completeness_warning(frame'[w].missing_clauses)
             /\ Unaccounted(o) \subseteq Range(frame'[w].missing_clauses)]_vars

\* The risk model's call is in flight for a ClauseSet whose warning names
\* "termination".
C10_Witness ==
    \E w \in WorkItems :
        /\ pc[w] = "grok"
        /\ calls[w].grok = 1
        /\ "termination" \in Unaccounted(frame[w].claude_data)
        /\ "termination" \in Range(frame[w].missing_clauses)

\* The address the email field of a request stands for: its second-to-last
\* comma-separated field, or all of it when it has no comma.
Contact(raw) ==
    IF Len(raw.s) >= 2 THEN Str(<<raw.s[Len(raw.s) - 1]>>) ELSE raw

\* C11: the requester contact is the second-to-last comma-separated field
\* of the request's email when it has a comma and the whole string
\* otherwise, and the success envelope's email is that contact.
C11_ContactParsedAndReturned ==
    [][\A w \in WorkItems :
          /\ pc[w] = "body_ready" /\ pc'[w] = "fetch"
                => frame'[w].email = Contact(frame[w].body.dict["email"])
          /\ ~Done(w) /\ Done(w)' /\ IsSuccessEnvelope(result'[w].env)
                => result'[w].env.email = Contact(frame[w].body.dict["email"])]_vars

\* The upload has succeeded for the request whose email was "a,b@x.com,c",
\* held as b@x.com.
C11_Witness ==
    \E w \in WorkItems :
        /\ pc[w] = "uploaded"
        /\ frame[w].upload = Str(<<"ok">>)
        /\ frame[w].body.dict["email"] = BlobEmail
        /\ frame[w].email = Str(<<"b@x.com">>)

\* The texts of a document's pages put end to end.
RECURSIVE Flatten(_)
Flatten(parts) ==
    IF parts = <<>> THEN <<>> ELSE Head(parts) \o Flatten(Tail(parts))
PageStrings(doc) ==
    [i \in 1..Len(doc.pages) |-> IF doc.pages[i] = None THEN <<>> ELSE doc.pages[i].s]
\* A text without the line breaks that separate its pages.
WithoutPageBreaks(text) == SelectSeq(text, LAMBDA ch : ch # "\n")

\* C12: OCR runs only when the text layer gave no text or white space only.
\* A document with a genuine text layer gives that text, the pages end to
\* end, with no OCR call; a document with empty text layers whose pages
\* OCR reads gives one OCR call per page and the pages' OCR output in page
\* order.
C12_OcrOnlyAsFallback ==
    [][\A w \in WorkItems :
          /\ pc[w] = "fetched"
          /\ "status" \in DOMAIN frame[w].r
          /\ frame[w].r.status = 200
          /\ Moves(w)
          => LET doc == frame[w].r.body IN
             /\ ~NoTextLayer(doc) =>
                   /\ pc'[w] = "claude"
                   /\ frame'[w].text = Str(Flatten(PageStrings(doc)))
                   /\ frame'[w].ocr_calls = 0
             /\ NoTextLayer(doc) /\ doc.ocr_ok =>
                   /\ pc'[w] = "claude"
                   /\ frame'[w].ocr_calls = Len(doc.pages)
                   /\ WithoutPageBreaks(frame'[w].text.s) = Flatten(doc.ocr)
             /\ pc'[w] = "claude" /\ frame'[w].ocr_calls > 0 => NoTextLayer(doc)]_vars

\* The clause model is being called with the OCR output of a two-page
\* scan.
C12_Witness ==
    \E w \in WorkItems :
        /\ pc[w] = "claude"
        /\ frame[w].ocr_calls = 2
        /\ frame[w].text = Str(<<"b", "\n", "b">>)

\* An external HTTP call that failed: no response, or a status of 400 and
\* above.
CallFailed(resp) == "neterr" \in DOMAIN resp \/ resp.status >= 400
\* The words an error message opens with.
Prefix(w) == result[w].env.message[1]
DownloadWords == "Failed to download or process file: "
StorageWords == "S3 error: "
\* WorkItem w's handler returns in this step.
Returns(w) == ~Done(w) /\ Done(w)'

\* C13: the message of an error envelope names what failed.  A failed
\* download is reported as a download failure, a failed model call is not,
\* a model reply that arrived but cannot be parsed is not reported as a
\* failed call is, and a failed upload or signed-URL generation is
\* reported as a storage failure.
C13_MessageNamesCategory ==
    [][\A w \in WorkItems :
          Returns(w) =>
            /\ pc[w] = "fetched" /\ CallFailed(frame[w].r)
                  => ReturnedError(w)' /\ Prefix(w)' = DownloadWords
            /\ pc[w] = "claude_returned" /\ CallFailed(frame[w].claude_response)
                  => ReturnedError(w)' /\ Prefix(w)' # DownloadWords
            /\ pc[w] = "grok_returned" /\ CallFailed(frame[w].grok_response)
                  => ReturnedError(w)' /\ Prefix(w)' # DownloadWords
            /\ pc[w] = "claude_returned" /\ ~CallFailed(frame[w].claude_response)
                  => ReturnedError(w)' /\ Prefix(w)' # DownloadWords
            /\ pc[w] = "uploaded" /\ frame[w].upload # Str(<<"ok">>)
                  => ReturnedError(w)' /\ Prefix(w)' = StorageWords
            /\ (/\ pc[w] = "uploaded" /\ frame[w].upload = Str(<<"ok">>)
                /\ ReturnedError(w)'
                /\ result'[w].env.message[2][1] = "presign")
                  => Prefix(w)' = StorageWords]_vars

\* C14: the report is a function of the ClauseSet and the RiskSet alone:
\* the story built for them is the one any value of CURRENT_DATE in the
\* environment would give.
C14_RenderIgnoresEnvironment ==
    \A w \in WorkItems :
        pc[w] = "upload" =>
            \A env \in Environs :
                render(frame[w].claude_data, frame[w].grok_result, env)
                    = Ok(frame[w].story)

\* The handler's positions in the order of the code.
Position(label) ==
    CASE label = "idle" -> 0
      [] label = "await_json" -> 1
      [] label = "body_ready" -> 2
      [] label = "fetch" -> 3
      [] label = "fetched" -> 4
      [] label = "claude" -> 5
      [] label = "claude_returned" -> 6
      [] label = "grok" -> 7
      [] label = "grok_returned" -> 8
      [] label = "upload" -> 9
      [] label = "uploaded" -> 10
      [] label = "done" -> 11
\* The external calls in the order of the stages.
CallOrder == <<"fetch", "claude", "grok", "upload", "presign">>
\* The stage whose external call WorkItem w has just got the outcome of
\* has failed.
StageCallFailed(w) ==
    \/ pc[w] = "fetched" /\ CallFailed(frame[w].r)
    \/ pc[w] = "claude_returned" /\ CallFailed(frame[w].claude_response)
    \/ pc[w] = "grok_returned" /\ CallFailed(frame[w].grok_response)
    \/ pc[w] = "uploaded" /\ frame[w].upload # Str(<<"ok">>)

C16_FilesReleasedWhenStageCompletes ==
    \A w \in WorkItems :
        /\ Position(pc[w]) \in Position("claude")..Position("uploaded")
              => filename(unique_id[w]) \notin fs
        /\ Done(w) /\ unique_id[w] # 0
              => pdf_filename(unique_id[w]) \notin fs

\* The transient files and the storage key of the WorkItem with identifier
\* id.
OwnFiles(id) == {filename(id), pdf_filename(id)}
OwnKeys(id) == {s3_pdf_key(id)}

\* C17: concurrent WorkItems share no file and no storage object.  Two
\* WorkItems never hold the same identifier, and a step of a WorkItem's
\* handler creates and removes files only at that WorkItem's own paths,
\* stores only under its own key and removes no stored object.
C17_NoSharedFilesOrKeys ==
    [][/\ \A a \in WorkItems, b \in WorkItems :
             a # b /\ unique_id'[a] # 0 => unique_id'[a] # unique_id'[b]
       /\ \A w \in WorkItems :
             Moves(w) =>
               /\ (fs' \ fs) \cup (fs \ fs') \subseteq OwnFiles(unique_id'[w])
               /\ s3' \ s3 \subseteq OwnKeys(unique_id'[w])
               /\ s3 \subseteq s3'
               /\ unique_id[w] # 0 => unique_id'[w] = unique_id[w]]_vars

\* One WorkItem's report is stored while another WorkItem, with its own
\* downloaded file on disk, is calling the clause model.
C17_Witness ==
    \E a \in WorkItems, b \in WorkItems :
        /\ a # b
        /\ unique_id[a] # 0 /\ unique_id[b] # 0
        /\ s3_pdf_key(unique_id[a]) \in s3
        /\ pc[b] = "claude"
        /\ filename(unique_id[b]) \in fs

\* The risk-flags section of a story: the paragraphs after the "Risk Flags"
\* heading, up to the next spacer.
RiskFlagsHeading == P("Heading2", <<"Risk Flags">>)
NoRisksLine == P("Normal", <<"No Significant Risks Found">>)
RiskFlags(story) ==
    LET at == CHOOSE i \in 1..Len(story) : story[i] = RiskFlagsHeading
        end == Min({j \in (at + 1)..Len(story) : story[j] = Spacer})
    IN SubSeq(story, at + 1, end - 1)
\* The risks of a severity, in the order the RiskSet lists them.
OfSeverity(risks, sev) ==
    SelectSeq(risks, LAMBDA r : Lower(Get(r, "severity", "")) = sev)
\* A bucket as the report shows it: nothing when it is empty, else its
\* heading and one line per risk.
Bucket(heading, risks) ==
    IF risks = <<>> THEN <<>>
    ELSE <<P("Heading3", <<heading>>)>> \o [i \in 1..Len(risks) |-> risk_line(risks[i])]

\* C18: the risk-flags section of the report is the high bucket, then the
\* moderate bucket, then the low bucket, each with its heading when and
\* only when it has risks and with its risks in input order, followed by
\* the "no significant risks" line when and only when all three are empty.
C18_RiskFlagsBucketed ==
    \A w \in WorkItems :
        pc[w] = "upload" =>
            LET risks == Get(frame[w].grok_result, "risks", <<>>)
                high == OfSeverity(risks, "high")
                moderate == OfSeverity(risks, "moderate")
                low == OfSeverity(risks, "low")
            IN RiskFlags(frame[w].story) =
                   Bucket("High Risk", high)
                   \o Bucket("Moderate Risk", moderate)
                   \o Bucket("Low Risk", low)
                   \o (IF high = <<>> /\ moderate = <<>> /\ low = <<>>
                       THEN <<NoRisksLine>> ELSE <<>>)

\* The report is built for a RiskSet that lists a low risk before a high
\* one.
C18_Witness ==
    \E w \in WorkItems :
        /\ pc[w] = "upload"
        /\ "risks" \in DOMAIN frame[w].grok_result
        /\ frame[w].grok_result.risks =
              <<FullRisk("low", "termination_early"), FullRisk("high", "termination_early")>>
        /\ RiskFlags(frame[w].story)[1] = P("Heading3", <<"High Risk">>)

\* C19: every risk of the RiskSet is shown in the risk-flags section, in
\* one bucket, so the "No Significant Risks Found" line is printed only for
\* a RiskSet with no risk, whatever the severities of its risks.
C19_EveryRiskShown ==
    \A w \in WorkItems :
        pc[w] = "upload" =>
            LET risks == Get(frame[w].grok_result, "risks", <<>>)
                flags == RiskFlags(frame[w].story)
            IN /\ Len(SelectSeq(flags, LAMBDA p : p.style = "Normal" /\ p # NoRisksLine))
                     = Len(risks)
               /\ \A i \in 1..Len(risks) : risk_line(risks[i]) \in Range(flags)
               /\ NoRisksLine \in Range(flags) => risks = <<>>

\* C20: the completeness check gives no false warning: a checklist item of
\* which the ClauseSet holds a found clause (types compared without regard
\* to case) is not among the clauses the warning reports as missing.
C20_NoFalseCompletenessWarning ==
    \A w \in WorkItems :
        pc[w] = "grok" =>
            LET clauses == Get(frame[w].claude_data, "clauses", <<>>) IN
            \A item \in Range(checklist) :
                (\E i \in DOMAIN clauses : Lower(clauses[i]["type"]) = Lower(item))
                    => item \notin Range(frame[w].missing_clauses)

====
